---- MODULE Spec2Model ----
(***************************************************************************)
(* globalenv (src/src/lib.rs), Unix backend: set_var and unset_var keep an *)
(* environment variable in the shell profile file (~/.zshenv or ~/.bashrc) *)
(* and mirror it into the environment of the calling process.              *)
(*                                                                         *)
(* Strings are sequences of one-character strings, so that str::contains   *)
(* and str::lines are computed on characters as the library computes them. *)
(* An optional value (an environment variable that may be unset, a file    *)
(* that may not exist) is a sequence of length 0 or 1.                     *)
(*                                                                         *)
(* $HOME and $SHELL are read by the calls and never set by them: the names *)
(* the calls are made with are other variables. The registry backend       *)
(* (target_os = "windows") is not part of this model.                      *)
(***************************************************************************)
EXTENDS Naturals, Sequences, FiniteSets

\* ------------------------------------------------------------------ bounds
\* set_var appends only while the profile file has fewer than MaxLines lines.
MaxLines == 2
\* In the concurrent specification every process makes at most MaxCalls calls.
MaxCalls == 1

\* ------------------------------------------------------------- characters
NL == "\n"
CR == "\r"
ExportKw == <<"e", "x", "p", "o", "r", "t", " ">>
EqSign == <<"=">>

\* Variable names and values the calls are made with. P is a substring of MP.
P == <<"P">>
MP == <<"M", "P">>
V1 == <<"1">>
V2 == <<"2">>
Names == {P, MP}
Values == {V1, V2}

None == <<>>
Some(x) == <<x>>
Get(o) == o[1]

\* --------------------------------------------------------- the environment
Zsh == "/bin/zsh"
Bash == "/bin/bash"
Fish == "/bin/fish"
HomeDir == "/home/u"
ZshEnv == ".zshenv"
BashRc == ".bashrc"
ProfileFiles == {ZshEnv, BashRc}

\* What the I/O primitives of one call do: all succeed, fs::read_to_string
\* fails, opening the file for writing fails, or the write itself fails.
Faults == {"none", "read", "open", "write"}

\* Profile file contents the calls may find: an empty file, a comment that
\* mentions P, a variable that is set, a last line without a newline, a CRLF
\* file.
InitContents ==
  { <<>>,
    <<"#", " ", "P", NL>>,
    ExportKw \o MP \o EqSign \o V1 \o <<NL>>,
    ExportKw \o MP \o EqSign \o V1,
    ExportKw \o P \o EqSign \o V2 \o <<CR, NL>> }

Procs == {"p1", "p2"}
\* The process of the sequential specification.
Main == "p1"

VARIABLES
  home,    \* $HOME of the processes: None or Some(dir)
  shell,   \* $SHELL of the processes: None or Some(path)
  files,   \* profile file name -> None (no such file) or Some(content)
  penv,    \* process -> variable name -> None (unset) or Some(value)
  last,    \* the last call of Main: its arguments, result and the state before it
  pc,      \* process -> "idle" or "write": position in a call, concurrent specification
  loc,     \* process -> the locals of its running call
  done     \* process -> the calls it completed, concurrent specification

vars == <<home, shell, files, penv, last, pc, loc, done>>

\* ------------------------------------------------------------ str helpers
\* str::contains(pat)
Contains(s, t) ==
  \E i \in 0..Len(s) : i + Len(t) <= Len(s) /\ SubSeq(s, i + 1, i + Len(t)) = t

\* One line of str::lines(): the "\n" is dropped, and a "\r" right before it.
StripEnding(seg) ==
  IF Len(seg) > 0 /\ seg[Len(seg)] = NL
    THEN IF Len(seg) > 1 /\ seg[Len(seg) - 1] = CR
           THEN SubSeq(seg, 1, Len(seg) - 2)
           ELSE SubSeq(seg, 1, Len(seg) - 1)
    ELSE seg

\* str::lines(): split after every "\n"; a last piece without one is a line
\* only if it is not empty.
RECURSIVE LinesFrom(_, _, _)
LinesFrom(s, i, cur) ==
  IF i > Len(s)
    THEN IF cur = <<>> THEN <<>> ELSE <<cur>>
    ELSE IF s[i] = NL
           THEN <<StripEnding(Append(cur, NL))>> \o LinesFrom(s, i + 1, <<>>)
           ELSE LinesFrom(s, i + 1, Append(cur, s[i]))

Lines(s) == LinesFrom(s, 1, <<>>)

\* ------------------------------------------------------------ the program
\* EnvFile with .bashrc as the default arm of the match.
EnvFileDefaultBash(sh) == IF sh = Zsh THEN <<ZshEnv>> ELSE <<BashRc>>

\* match shell.as_str() { "/bin/zsh" => ".zshenv", "/bin/bash" => ".bashrc", _ => Err }
EnvFile(sh) ==
  IF sh = Zsh THEN Some(ZshEnv)
  ELSE IF sh = Bash THEN Some(BashRc)
  ELSE None

\* "export " + var + "=" + value + "\n"
ExportLine(var, value) == ExportKw \o var \o EqSign \o value \o <<NL>>

\* "export " + var + "="
ExportPrefix(var) == ExportKw \o var \o EqSign

\* KeepLines that stops filtering after the first line it drops.
RECURSIVE KeepAllLines(_)
KeepAllLines(ls) ==
  IF ls = <<>> THEN <<>> ELSE Head(ls) \o <<NL>> \o KeepAllLines(Tail(ls))

RECURSIVE KeepLinesDropFirst(_, _)
KeepLinesDropFirst(ls, var) ==
  IF ls = <<>> THEN <<>>
  ELSE IF ~Contains(Head(ls), var)
         THEN Head(ls) \o <<NL>> \o KeepLinesDropFirst(Tail(ls), var)
         ELSE KeepAllLines(Tail(ls))

\* KeepLines that drops only the lines that contain "export var=".
RECURSIVE KeepLinesExact(_, _)
KeepLinesExact(ls, var) ==
  IF ls = <<>> THEN <<>>
  ELSE IF ~Contains(Head(ls), ExportPrefix(var))
         THEN Head(ls) \o <<NL>> \o KeepLinesExact(Tail(ls), var)
         ELSE KeepLinesExact(Tail(ls), var)

\* for l in env.lines() { if !l.contains(var) { push l; push "\n" } }
RECURSIVE KeepLines(_, _)
KeepLines(ls, var) ==
  IF ls = <<>> THEN <<>>
  ELSE IF ~Contains(Head(ls), var)
         THEN Head(ls) \o <<NL>> \o KeepLines(Tail(ls), var)
         ELSE KeepLines(Tail(ls), var)

UpdatedEnv(env, var) == KeepLines(Lines(env), var)

\* The outcome of the lines before the file is read: the error they return,
\* or "Ok" and then Path(h, sh) is the profile file.
Resolve(h, sh) ==
  IF h = None THEN "VarError"
  ELSE IF sh = None THEN "VarError"
  ELSE IF EnvFile(Get(sh)) = None THEN "UnsupportedShell"
  ELSE "Ok"

Path(h, sh) == Get(EnvFile(Get(sh)))

\* fs::read_to_string: fails if the file does not exist or cannot be read.
ReadFails(fs, path, fault) == fs[path] = None \/ fault = "read"

Outcome(res, fs, env) == [res |-> res, files |-> fs, penv |-> env]

\* AppendTo without append(true): the file is replaced by the line.
AppendOverwrite(fs, path, line) == [fs EXCEPT ![path] = <<line>>]

\* OpenOptions::new().append(true).create(true).open(path), then write(line):
\* the line goes to the end of the file as it is now; a missing file is created.
\* A write that succeeds is taken to write the whole line.
AppendTo(fs, path, line) ==
  [fs EXCEPT ![path] = Some((IF fs[path] = None THEN <<>> ELSE Get(fs[path])) \o line)]

\* fs::write(path, content): the file is replaced by content.
WriteFile(fs, path, content) == [fs EXCEPT ![path] = Some(content)]

\* fs::write truncates the file when it opens it, so a write that fails after
\* the open leaves the file empty.
Truncated(fs, path) == [fs EXCEPT ![path] = Some(<<>>)]

\* env::set_var(var, value) and env::remove_var(var)
EnvSet(env, var, value) == [env EXCEPT ![var] = Some(value)]
EnvRemove(env, var) == [env EXCEPT ![var] = None]

\* AlreadyPresent that looks for "export var=" with any value.
AlreadyPresentAnyValue(env, var, value) == Contains(env, ExportPrefix(var))

\* AlreadyPresent that never finds the line.
NeverPresent(env, var, value) == FALSE

\* set_var: "Already present ? we just set the variable for current process"
AlreadyPresent(env, var, value) == Contains(env, ExportLine(var, value))

\* unset_var: "Variable not present in env file ?"
NotPresent(env, var) == ~Contains(env, ExportPrefix(var))

\* SetVarResult with env::set_var moved before the file is opened for writing.
SetVarMirrorFirst(var, value, h, sh, fs, env, fault) ==
  IF Resolve(h, sh) # "Ok" THEN Outcome(Resolve(h, sh), fs, env)
  ELSE LET path == Path(h, sh) IN
    IF ReadFails(fs, path, fault) THEN Outcome("IOError", fs, env)
    ELSE IF fault \in {"open", "write"}
              /\ ~Contains(Get(fs[path]), ExportLine(var, value))
      THEN Outcome("IOError", fs, EnvSet(env, var, value))
    ELSE IF Contains(Get(fs[path]), ExportLine(var, value))
      THEN Outcome("Ok", fs, EnvSet(env, var, value))
    ELSE Outcome("Ok", AppendTo(fs, path, ExportLine(var, value)), EnvSet(env, var, value))

\* set_var(var, value) as one step: result, files and process environment after it.
SetVarResult(var, value, h, sh, fs, env, fault) ==
  IF Resolve(h, sh) # "Ok" THEN Outcome(Resolve(h, sh), fs, env)
  ELSE LET path == Path(h, sh) IN
    IF ReadFails(fs, path, fault) THEN Outcome("IOError", fs, env)
    ELSE IF AlreadyPresent(Get(fs[path]), var, value)
      THEN Outcome("Ok", fs, EnvSet(env, var, value))
    ELSE IF fault \in {"open", "write"} THEN Outcome("IOError", fs, env)
    ELSE Outcome("Ok", AppendTo(fs, path, ExportLine(var, value)), EnvSet(env, var, value))

\* unset_var(var) as one step.
UnsetVarResult(var, h, sh, fs, env, fault) ==
  IF Resolve(h, sh) # "Ok" THEN Outcome(Resolve(h, sh), fs, env)
  ELSE LET path == Path(h, sh) IN
    IF ReadFails(fs, path, fault) THEN Outcome("IOError", fs, env)
    ELSE IF NotPresent(Get(fs[path]), var)
      THEN Outcome("Ok", fs, EnvRemove(env, var))
    ELSE IF fault = "open" THEN Outcome("IOError", fs, env)
    ELSE IF fault = "write" THEN Outcome("IOError", Truncated(fs, path), env)
    ELSE Outcome("Ok", WriteFile(fs, path, UpdatedEnv(Get(fs[path]), var)),
                 EnvRemove(env, var))

\* ------------------------------------------------------------------- Init
\* A call as the history records it.
CallRec(op, var, val, res) == [op |-> op, var |-> var, val |-> val, res |-> res]

NoCall == CallRec("none", <<>>, <<>>, "none")

\* The process environments the calls may find.
InitEnvs == { [n \in Names |-> None],
              [n \in Names |-> IF n = P THEN Some(V2) ELSE None] }

NoLocals == [op |-> "none", var |-> <<>>, val |-> <<>>, path |-> "", env |-> <<>>,
             missed |-> {}, stale |-> FALSE]

\* Both profile files start with the same content, or both are missing.
Init ==
  /\ home \in {None, Some(HomeDir)}
  /\ shell \in {None, Some(Zsh), Some(Bash), Some(Fish)}
  /\ \E c \in {None} \cup {Some(t) : t \in InitContents} :
       files = [f \in ProfileFiles |-> c]
  /\ \E e \in InitEnvs : penv = [p \in Procs |-> e]
  /\ last = [call |-> NoCall, fault |-> "none", again |-> FALSE,
             files0 |-> files, penv0 |-> penv[Main]]
  /\ pc = [p \in Procs |-> "idle"]
  /\ loc = [p \in Procs |-> NoLocals]
  /\ done = [p \in Procs |-> <<>>]

\* ------------------------------------------- the calls, one after another
concVars == <<pc, loc, done>>

\* The profile file the calls use, when $HOME and $SHELL resolve to one.
Resolved == Resolve(home, shell) = "Ok"
ProfilePath == Path(home, shell)
Profile == files[ProfilePath]

\* The I/O primitives a call reaches, which are those that can fail in it.
\* Reading a missing file fails by itself.
SetFaults(var, value) ==
  IF Resolved /\ Profile # None
    THEN IF AlreadyPresent(Get(Profile), var, value)
           THEN {"none", "read"} ELSE Faults
    ELSE {"none"}

UnsetFaults(var) ==
  IF Resolved /\ Profile # None
    THEN IF NotPresent(Get(Profile), var) THEN {"none", "read"} ELSE Faults
    ELSE {"none"}

LineCount(fs) ==
  IF Resolved /\ fs[ProfilePath] # None THEN Len(Lines(Get(fs[ProfilePath]))) ELSE 0

\* again: the call before was the same call, and both returned Ok.
Record(op, var, val, fault, out) ==
  /\ files' = out.files
  /\ penv' = [penv EXCEPT ![Main] = out.penv]
  /\ last' = [call |-> CallRec(op, var, val, out.res), fault |-> fault,
              again |-> (out.res = "Ok" /\ last.call = CallRec(op, var, val, "Ok")),
              files0 |-> files, penv0 |-> penv[Main]]
  /\ UNCHANGED <<home, shell, concVars>>

\* set_var(var, value)
SetVar(var, value, fault) ==
  LET out == SetVarResult(var, value, home, shell, files, penv[Main], fault) IN
  /\ fault \in SetFaults(var, value)
  /\ LineCount(out.files) <= MaxLines
  /\ Record("set", var, value, fault, out)

\* unset_var(var)
UnsetVar(var, fault) ==
  LET out == UnsetVarResult(var, home, shell, files, penv[Main], fault) IN
  /\ fault \in UnsetFaults(var)
  /\ Record("unset", var, <<>>, fault, out)

Next ==
  \/ \E var \in Names, value \in Values, fault \in Faults : SetVar(var, value, fault)
  \/ \E var \in Names, fault \in Faults : UnsetVar(var, fault)

Spec == Init /\ [][Next]_vars

\* ------------------------------------- two processes, calls interleaved
\* A call touches the profile file twice, to read it and to write it, and
\* holds no lock in between: its step up to the decision and its step from the
\* write on are separate actions, and another process may act between them.
\* The reads and writes of an existing file succeed here; the calls whose I/O
\* fails are those of Spec.

\* A completed call. wrote: it appended to the file or replaced it. missed:
\* the lines other processes appended between its read and its write. stale:
\* another process wrote the file between its read and its write.
DoneRec(op, var, val, res, wrote, missed, stale) ==
  [op |-> op, var |-> var, val |-> val, res |-> res, wrote |-> wrote,
   missed |-> missed, stale |-> stale]

\* The locals of the other processes, after process p wrote the file.
OthersMiss(p, lines) ==
  [q \in Procs |->
     IF q = p THEN NoLocals
     ELSE IF pc[q] = "write"
       THEN [loc[q] EXCEPT !.missed = @ \cup lines, !.stale = TRUE]
       ELSE loc[q]]

Complete(p, rec) ==
  /\ done' = [done EXCEPT ![p] = Append(@, rec)]
  /\ pc' = [pc EXCEPT ![p] = "idle"]

Proceed(p, op, var, val) ==
  /\ pc' = [pc EXCEPT ![p] = "write"]
  /\ loc' = [loc EXCEPT ![p] = [op |-> op, var |-> var, val |-> val,
                                path |-> ProfilePath, env |-> Get(Profile),
                                missed |-> {}, stale |-> FALSE]]
  /\ UNCHANGED <<done, penv>>

CanStart(p) == pc[p] = "idle" /\ Len(done[p]) < MaxCalls

\* set_var up to "Already present ?": the environment lookups, the read and
\* the decision.
SetVarRead(p, var, value) ==
  /\ CanStart(p)
  /\ UNCHANGED <<home, shell, files, last>>
  /\ IF ~Resolved
       THEN /\ Complete(p, DoneRec("set", var, value, Resolve(home, shell), FALSE, {}, FALSE))
            /\ UNCHANGED <<penv, loc>>
       ELSE IF ReadFails(files, ProfilePath, "none")
         THEN /\ Complete(p, DoneRec("set", var, value, "IOError", FALSE, {}, FALSE))
              /\ UNCHANGED <<penv, loc>>
         ELSE IF AlreadyPresent(Get(Profile), var, value)
           THEN /\ Complete(p, DoneRec("set", var, value, "Ok", FALSE, {}, FALSE))
                /\ penv' = [penv EXCEPT ![p] = EnvSet(@, var, value)]
                /\ UNCHANGED loc
           ELSE Proceed(p, "set", var, value)

\* set_var from "Not present ?" on: the append and the process environment.
SetVarWrite(p) ==
  /\ pc[p] = "write" /\ loc[p].op = "set"
  /\ UNCHANGED <<home, shell, last>>
  /\ files' = AppendTo(files, loc[p].path, ExportLine(loc[p].var, loc[p].val))
  /\ penv' = [penv EXCEPT ![p] = EnvSet(@, loc[p].var, loc[p].val)]
  /\ Complete(p, DoneRec("set", loc[p].var, loc[p].val, "Ok", TRUE, loc[p].missed,
                      loc[p].stale))
  /\ loc' = OthersMiss(p, {ExportLine(loc[p].var, loc[p].val)})

\* unset_var up to "Variable not present in env file ?".
UnsetVarRead(p, var) ==
  /\ CanStart(p)
  /\ UNCHANGED <<home, shell, files, last>>
  /\ IF ~Resolved
       THEN /\ Complete(p, DoneRec("unset", var, <<>>, Resolve(home, shell), FALSE, {}, FALSE))
            /\ UNCHANGED <<penv, loc>>
       ELSE IF ReadFails(files, ProfilePath, "none")
         THEN /\ Complete(p, DoneRec("unset", var, <<>>, "IOError", FALSE, {}, FALSE))
              /\ UNCHANGED <<penv, loc>>
         ELSE IF NotPresent(Get(Profile), var)
           THEN /\ Complete(p, DoneRec("unset", var, <<>>, "Ok", FALSE, {}, FALSE))
                /\ penv' = [penv EXCEPT ![p] = EnvRemove(@, var)]
                /\ UNCHANGED loc
           ELSE Proceed(p, "unset", var, <<>>)

\* unset_var from "Present ?" on: the file is rebuilt from the content that
\* was read and written back, then the process environment.
UnsetVarWrite(p) ==
  /\ pc[p] = "write" /\ loc[p].op = "unset"
  /\ UNCHANGED <<home, shell, last>>
  /\ files' = WriteFile(files, loc[p].path, UpdatedEnv(loc[p].env, loc[p].var))
  /\ penv' = [penv EXCEPT ![p] = EnvRemove(@, loc[p].var)]
  /\ Complete(p, DoneRec("unset", loc[p].var, <<>>, "Ok", TRUE, loc[p].missed,
                      loc[p].stale))
  /\ loc' = OthersMiss(p, {})

NextConc ==
  \/ \E p \in Procs, var \in Names, value \in Values : SetVarRead(p, var, value)
  \/ \E p \in Procs : SetVarWrite(p)
  \/ \E p \in Procs, var \in Names : UnsetVarRead(p, var)
  \/ \E p \in Procs : UnsetVarWrite(p)

SpecConc == Init /\ [][NextConc]_vars

\* ------------------------------------------------------------- properties
\* What the formulas below read of the last call.
Op == last.call.op
Var == last.call.var
Val == last.call.val
Res == last.call.res
\* The profile file before the last call of Main; in SpecConc, where last
\* stays as Init set it, the profile file before all calls.
Profile0 == last.files0[ProfilePath]

\* The value a shell that sources the file gets for n: that of the last line
\* that starts with "export n=".
IsExportOf(l, n) ==
  Len(l) >= Len(ExportPrefix(n)) /\ SubSeq(l, 1, Len(ExportPrefix(n))) = ExportPrefix(n)

ShellValue(content, n) ==
  LET ls == Lines(content)
      is == {i \in 1..Len(ls) : IsExportOf(ls[i], n)}
  IN IF is = {} THEN None
     ELSE LET i == CHOOSE j \in is : \A k \in is : k <= j
          IN Some(SubSeq(ls[i], Len(ExportPrefix(n)) + 1, Len(ls[i])))

EndsWithNewline(c) == c = <<>> \/ c[Len(c)] = NL

\* The number of lines of the file that are "export var=value".
CountLines(content, var, value) ==
  Cardinality({i \in 1..Len(Lines(content)) : Lines(content)[i] = ExportPrefix(var) \o value})

\* Every line followed by a newline.
RECURSIVE JoinLines(_)
JoinLines(ls) == IF ls = <<>> THEN <<>> ELSE Head(ls) \o <<NL>> \o JoinLines(Tail(ls))

\* The lines of content that do not contain n, in their order.
LinesWithout(content, n) ==
  LET Keep(l) == ~Contains(l, n) IN SelectSeq(Lines(content), Keep)

\* C1: with a supported shell and an existing profile file whose reads and
\* writes succeed, set_var(n, v) returns Ok, the process environment maps n to
\* v and the profile file contains "export n=v\n".
C1_SetVarSetsBothStores ==
  (Op = "set" /\ Resolved /\ Profile0 # None /\ last.fault = "none")
    => /\ Res = "Ok"
       /\ penv[Main][Var] = Some(Val)
       /\ Profile # None
       /\ Contains(Get(Profile), ExportLine(Var, Val))

\* C1 witness: a set_var that appended its line to an existing file and
\* replaced another value in the process environment.
C1_Witness ==
  /\ Op = "set" /\ Res = "Ok" /\ last.fault = "none" /\ Resolved
  /\ Profile0 # None /\ Profile # Profile0
  /\ last.penv0[Var] # None /\ last.penv0[Var] # Some(Val)
  /\ penv[Main][Var] = Some(Val)

\* A file whose lines all end with a newline, none with a carriage return
\* before it: unset_var writes such a file back as it is, if it drops no line.
LfTerminated(c) == c = JoinLines(Lines(c))

\* A file made only of lines "export n=v\n", as set_var writes them.
OnlyExports(c) ==
  /\ LfTerminated(c)
  /\ \A i \in 1..Len(Lines(c)) :
       \E n \in Names, v \in Values : Lines(c)[i] = ExportPrefix(n) \o v

\* C2: right after a successful set_var(n, v) on a profile file made only of
\* lines that set_var wrote, the process environment maps n to v and a shell
\* that sources the profile file gets v for n.
C2_SetReflectedInBothStores ==
  (Op = "set" /\ Res = "Ok" /\ OnlyExports(Get(Profile0)))
    => /\ penv[Main][Var] = Some(Val)
       /\ ShellValue(Get(Profile), Var) = Some(Val)

\* The step of the second of two set_var(n, v) in a row, both Ok, that started
\* from a file that is empty or ends with a newline. In it last.files0 is the
\* file before the first call, files after the first, files' after the second.
SecondOfTwo ==
  /\ Op = "set" /\ Res = "Ok" /\ last'.again
  /\ EndsWithNewline(Get(Profile0))

\* C3 as stated: two set_var(n, v) in a row leave the file as the first call
\* left it, with exactly one line "export n=v" added by the two calls.
C3_TwiceAddsExactlyOne ==
  [][SecondOfTwo =>
       /\ files' = files
       /\ CountLines(Get(files'[ProfilePath]), Var, Val)
            = CountLines(Get(Profile0), Var, Val) + 1]_vars

\* C3 amended: two set_var(n, v) in a row leave the file as the first call
\* left it; together they add one line "export n=v" if the file did not
\* contain "export n=v\n" before them, and none if it did.
C3_TwiceAddsAtMostOne ==
  [][SecondOfTwo =>
       /\ files' = files
       /\ CountLines(Get(files'[ProfilePath]), Var, Val)
            = CountLines(Get(Profile0), Var, Val)
              + (IF Contains(Get(Profile0), ExportLine(Var, Val)) THEN 0 ELSE 1)]_vars

\* C3 witness: the second of two equal set_var calls has returned Ok and left
\* the file alone, with its line in it once.
C3_Witness ==
  /\ Op = "set" /\ last.again
  /\ files = last.files0
  /\ CountLines(Get(Profile), Var, Val) = 1

\* C4: after a successful unset_var(n) the process environment has no n and
\* the profile file contains no "export n=".
C4_UnsetRemovesFromBothStores ==
  (Op = "unset" /\ Res = "Ok")
    => /\ penv[Main][Var] = None
       /\ ~Contains(Get(Profile), ExportPrefix(Var))

\* C4 witness: a successful unset_var(n) of a variable that was set in the
\* process and had lines with two values in the file.
C4_Witness ==
  /\ Op = "unset" /\ Res = "Ok"
  /\ last.penv0[Var] # None
  /\ Contains(Get(Profile0), ExportLine(Var, V1))
  /\ Contains(Get(Profile0), ExportLine(Var, V2))

\* C5: unset_var(A) right after a successful set_var(B, b), B different from
\* A, on a file that holds a line "export A=a": the file still contains
\* "export B=b" and contains no "export A=".
C5_UnsetKeepsOtherVariables ==
  [][(/\ Op = "set" /\ Res = "Ok"
      /\ last'.call.op = "unset" /\ last'.call.res = "Ok"
      /\ last'.call.var # Var
      /\ \E a \in Values : Contains(Get(Profile), ExportLine(last'.call.var, a)))
     => /\ Contains(Get(files'[ProfilePath]), ExportLine(Var, Val))
        /\ ~Contains(Get(files'[ProfilePath]), ExportPrefix(last'.call.var))]_vars

\* C6: with $HOME set and $SHELL neither /bin/zsh nor /bin/bash, set_var and
\* unset_var return UnsupportedShell and change neither the process
\* environment nor any profile file.
C6_UnsupportedShellChangesNothing ==
  (Op # "none" /\ home # None /\ shell # None /\ Get(shell) \notin {Zsh, Bash})
    => /\ Res = "UnsupportedShell"
       /\ files = last.files0
       /\ penv[Main] = last.penv0

\* C6 witness: a call under /bin/fish, with profile files and a variable set.
C6_Witness ==
  /\ Op = "set" /\ shell = Some(Fish) /\ home # None
  /\ Res = "UnsupportedShell"
  /\ files[ZshEnv] # None /\ last.penv0[P] # None

\* C7: a call that returns an error leaves the process environment as it was.
C7_ErrorLeavesProcessEnv ==
  (Res \in {"VarError", "UnsupportedShell", "IOError"}) => penv[Main] = last.penv0

\* C7 witness: a set_var whose write failed, with a value the process
\* environment did not hold.
C7_Witness ==
  /\ Op = "set" /\ Res = "IOError" /\ last.fault = "write"
  /\ last.penv0[Var] # Some(Val)

\* C8: with a supported shell and no profile file, set_var(n, v) returns Ok,
\* creates the file with the line "export n=v\n" and sets n to v in the process.
C8_SetVarCreatesMissingFile ==
  (Op = "set" /\ Resolved /\ Profile0 = None)
    => /\ Res = "Ok"
       /\ Profile = Some(ExportLine(Var, Val))
       /\ penv[Main][Var] = Some(Val)

\* C9: a successful unset_var(n) clears n in the process environment and
\* nothing else there; it leaves the files as they were if the profile file
\* did not contain "export n="; otherwise the profile file becomes its lines
\* that do not contain n, in their order, each followed by a newline, and the
\* other file stays as it was.
C9_UnsetRewrite ==
  (Op = "unset" /\ Res = "Ok")
    => /\ penv[Main] = [last.penv0 EXCEPT ![Var] = None]
       /\ \A f \in ProfileFiles \ {ProfilePath} : files[f] = last.files0[f]
       /\ IF ~Contains(Get(Profile0), ExportPrefix(Var))
            THEN files = last.files0
            ELSE Profile = Some(JoinLines(LinesWithout(Get(Profile0), Var)))

\* C9 witness: a successful unset_var(n) that rewrote the file and removed a
\* line that mentions n and is not an export of n.
C9_Witness ==
  /\ Op = "unset" /\ Res = "Ok"
  /\ Contains(Get(Profile0), ExportPrefix(Var))
  /\ \E i \in 1..Len(Lines(Get(Profile0))) :
       /\ Contains(Lines(Get(Profile0))[i], Var)
       /\ ~IsExportOf(Lines(Get(Profile0))[i], Var)
  /\ LinesWithout(Get(Profile), Var) = Lines(Get(Profile))


\* The number of places of content where the text t stands.
CountOcc(content, t) ==
  Cardinality({i \in 0..Len(content) :
                 i + Len(t) <= Len(content) /\ SubSeq(content, i + 1, i + Len(t)) = t})

\* C10: calls of two processes interleave without a lock, on a profile file
\* whose lines all ended with a bare newline before them. The line of a
\* set_var(B, b) that appended it and returned Ok is missing from the file
\* only if an unset_var rewrote the file, and that unset_var either names a
\* substring of the line or is a call of another process that read the file
\* before the append and wrote it back after. A line "export n=v\n" stands
\* twice in the file only if some call wrote the file after another process
\* had written it since that call read it.
C10_LostUpdateOnlyByInterleaving ==
  (Resolved /\ Profile0 # None /\ LfTerminated(Get(Profile0))) =>
    /\ \A p \in Procs : \A i \in 1..Len(done[p]) :
         LET c == done[p][i]
             line == ExportLine(c.var, c.val)
         IN (c.op = "set" /\ c.res = "Ok" /\ c.wrote /\ ~Contains(Get(Profile), line))
              => \E q \in Procs : \E j \in 1..Len(done[q]) :
                   LET d == done[q][j] IN
                   /\ d.op = "unset" /\ d.wrote
                   /\ \/ Contains(line, d.var)
                      \/ q # p /\ line \in d.missed
    /\ \A n \in Names, v \in Values :
         CountOcc(Get(Profile), ExportLine(n, v)) >= 2
           => \E q \in Procs : \E j \in 1..Len(done[q]) :
                done[q][j].wrote /\ done[q][j].stale

\* C10 witness: the lost update. set_var(B, b) of one process returned Ok and
\* its line is not in the file, because unset_var(A) of the other process, A
\* no substring of the line, read before the append and wrote after it.
C10_Witness ==
  \E p \in Procs : \E q \in Procs \ {p} :
    /\ Resolved /\ Profile0 # None /\ LfTerminated(Get(Profile0))
    /\ pc[p] = "idle" /\ pc[q] = "idle"
    /\ Len(done[p]) = 1 /\ Len(done[q]) = 1
    /\ done[p][1].op = "set" /\ done[p][1].res = "Ok" /\ done[p][1].wrote
    /\ done[q][1].op = "unset" /\ done[q][1].res = "Ok" /\ done[q][1].wrote
    /\ ~Contains(ExportLine(done[p][1].var, done[p][1].val), done[q][1].var)
    /\ ExportLine(done[p][1].var, done[p][1].val) \in done[q][1].missed
    /\ penv[p][done[p][1].var] = Some(done[p][1].val)
    /\ ~Contains(Get(Profile), ExportLine(done[p][1].var, done[p][1].val))

\* The duplicate of C10: two set_var(n, v), one of each process, both
\* returned Ok and both appended, and the file holds the line twice.
C10_DuplicateLine ==
  \E n \in Names, v \in Values :
    /\ Resolved /\ Profile0 # None /\ LfTerminated(Get(Profile0))
    /\ CountOcc(Get(Profile), ExportLine(n, v)) = 2
    /\ \A p \in Procs :
         /\ Len(done[p]) = 1
         /\ done[p][1].op = "set" /\ done[p][1].res = "Ok" /\ done[p][1].wrote
         /\ done[p][1].var = n /\ done[p][1].val = v

====
